---------------------------- MODULE Spec2Model ----------------------------
(***************************************************************************)
(* Model of the VCD output module of libsigrok (src/output/vcd.c):         *)
(* init builds the probe registry and the header, receive encodes logic    *)
(* packets as value changes, cleanup releases the session.                 *)
(*                                                                         *)
(* Strings are sequences of one-character strings, byte buffers are        *)
(* sequences of 0..255, and the output text is a sequence of lines, each   *)
(* line a record with a kind field k.                                      *)
(***************************************************************************)
EXTENDS Integers, Sequences, FiniteSets, TLC

VARIABLES
    probes,     \* o->sdi->probes: the probe list handed to init
    rate,       \* the sample rate the driver reports, 0 when it reports none
    internal,   \* o->internal: "NULL" or "ctx" (the pointer, valid or not)
    heap,       \* blocks allocated by init and neither freed nor handed over
    ctx,        \* the contents of struct context
    op,         \* the last call made: "none", "init", "receive", "cleanup"
    pkt,        \* the packet of the last receive call
    ret,        \* the value the last call returned ("crash": it did not)
    out,        \* *out after the last receive call
    pre,        \* struct context as it was when the last call was entered
    preLive,    \* the context was allocated when the last call was entered
    prevFull,   \* the last sample handled before the last call, all its bytes
    hdr,        \* the header text init built (empty before init)
    hdrOuts,    \* number of receive outputs so far that carry the header
    logicRets,  \* number of logic packets receive has returned SR_OK for
    ncalls      \* number of receive and cleanup calls made

vars == <<probes, rate, internal, heap, ctx, op, pkt, ret, out, pre, preLive,
          prevFull, hdr, hdrOuts, logicRets, ncalls>>

----------------------------------------------------------------------------
(* Bounds of the model *)

MaxCalls == 3
MaxSamples == 2

----------------------------------------------------------------------------
(* Program constants *)

MaxProbes == 94
SR_KHZ1 == 1000
SR_MHZ1 == 1000000
SR_GHZ1 == 1000000000
Bang == 33

----------------------------------------------------------------------------
(* Small helpers on sequences and numbers *)

Max(a, b) == IF a > b THEN a ELSE b

Range(s) == {s[i] : i \in 1..Len(s)}

Pow2(n) == 2 ^ n

Digits == <<"0", "1", "2", "3", "4", "5", "6", "7", "8", "9">>

isdigit(c) == c \in Range(Digits)

DigitVal(c) == (CHOOSE i \in 1..10 : Digits[i] = c) - 1

\* strtoul(str + from, NULL, 10) on a C string: the value of the leading
\* run of digits starting at (1-based) position from
RECURSIVE strtoul(_, _, _)
strtoul(str, from, acc) ==
    IF from > Len(str) \/ ~isdigit(str[from]) THEN acc
    ELSE strtoul(str, from + 1, acc * 10 + DigitVal(str[from]))

\* char arithmetic: the value stored into a (signed) char
ToChar(n) == ((n + 128) % 256) - 128

----------------------------------------------------------------------------
(* get_array_str: split "base<N>" into the base name and N.  The C index    *)
(* end is 0-based; str[end] is str[end + 1] here.                          *)

RECURSIVE SkipDigits(_, _)
SkipDigits(str, end) ==
    IF end > 0 /\ isdigit(str[end + 1]) THEN SkipDigits(str, end - 1) ELSE end

NoMatch == [match |-> FALSE, name |-> <<>>, idx |-> 0]

get_array_str(str) ==
    LET end0 == Len(str) - 1 IN
    IF str[end0 + 1] # ">" THEN NoMatch
    ELSE LET end1 == end0 - 1 IN
         IF end1 <= 0 \/ ~isdigit(str[end1 + 1]) THEN NoMatch
         ELSE LET end == SkipDigits(str, end1) IN
              IF end = 0 \/ str[end + 1] # "<" THEN NoMatch
              ELSE [match |-> TRUE,
                    name  |-> SubSeq(str, 1, end),
                    idx   |-> strtoul(str, end + 2, 0)]

----------------------------------------------------------------------------
(* probe_find: index (1-based) of the first vector probe of that name, 0   *)
(* when there is none                                                      *)

probe_find(indices, name) ==
    LET hits == {i \in 1..Len(indices) :
                    indices[i].is_vector /\ indices[i].name = name}
    IN IF hits = {} THEN 0 ELSE CHOOSE i \in hits : \A j \in hits : i <= j

\* sort_bits: the comparator orders bit indices from the highest bit down
sort_bits(a, b) == IF a.bit = b.bit THEN 0 ELSE IF a.bit < b.bit THEN 1 ELSE -1

\* g_array_sort(probe_ctx->indices, sort_bits), as an insertion sort
RECURSIVE InsertBit(_, _)
InsertBit(sorted, b) ==
    IF sorted = <<>> THEN <<b>>
    ELSE IF sort_bits(b, Head(sorted)) < 0 THEN <<b>> \o sorted
    ELSE <<Head(sorted)>> \o InsertBit(Tail(sorted), b)

RECURSIVE g_array_sort(_)
g_array_sort(arr) ==
    IF arr = <<>> THEN <<>>
    ELSE InsertBit(g_array_sort(SubSeq(arr, 1, Len(arr) - 1)), arr[Len(arr)])

----------------------------------------------------------------------------
(* struct context right after g_malloc0                                    *)

NullBuf == [null |-> TRUE, bytes |-> <<>>]

NullText == [null |-> TRUE, text |-> <<>>]

ZeroCtx ==
    [probeindices |-> <<>>, header |-> NullText, prevsample |-> NullBuf,
     period |-> 0, samplerate |-> 0, unitsize |-> 0, samplecount |-> 0]

\* Heap blocks of a session, named by what holds them
Blk(kind, i) == <<kind, i>>

----------------------------------------------------------------------------
(* init, lines 133-165: one step of the loop over o->sdi->probes.  st is   *)
(* [pi: ctx->probeindices, n: num_enabled_probes, heap: blocks allocated]. *)

\* the symbol taken from the count of enabled entries, not of probes
InitAdd_m(st, probe, len, arr, bidx, found) ==
    IF found # 0
    THEN [st EXCEPT !.pi[found].indices = Append(@, bidx), !.n = @ + 1]
    ELSE [pi   |-> Append(st.pi,
                      [name      |-> IF arr.match THEN arr.name ELSE probe.name,
                       symbol    |-> ToChar(Bang + st.n),
                       indices   |-> <<bidx>>,
                       is_vector |-> arr.match]),
          n    |-> st.n + 1,
          heap |-> st.heap \cup {Blk("indices", len + 1)}
                     \cup (IF arr.match THEN {Blk("name", len + 1)} ELSE {})]

InitAdd(st, probe, len, arr, bidx, found) ==
    IF found # 0
    THEN \* the duplicated base name is freed at once, the bit joins the probe
         [st EXCEPT !.pi[found].indices = Append(@, bidx), !.n = @ + 1]
    ELSE [pi   |-> Append(st.pi,
                      [name      |-> IF arr.match THEN arr.name ELSE probe.name,
                       symbol    |-> ToChar(Bang + (len + 1) - 1),
                       indices   |-> <<bidx>>,
                       is_vector |-> arr.match]),
          n    |-> st.n + 1,
          heap |-> st.heap \cup {Blk("indices", len + 1)}
                     \cup (IF arr.match THEN {Blk("name", len + 1)} ELSE {})]

InitParsed(st, probe, len, arr) ==
    InitAdd(st, probe, len, arr,
            [bit |-> IF arr.match THEN arr.idx ELSE 0, sample |-> len],
            IF arr.match THEN probe_find(st.pi, arr.name) ELSE 0)

InitStep(st, probe) ==
    IF ~probe.enabled THEN st
    ELSE InitParsed(st, probe, Len(st.pi), get_array_str(probe.name))

\* the loop of lines 133-165 over list[lo..hi], left to right (split in
\* halves to keep the evaluation shallow)
RECURSIVE InitLoop(_, _, _, _)
InitLoop(st, list, lo, hi) ==
    IF lo > hi THEN st
    ELSE IF lo = hi THEN InitStep(st, list[lo])
    ELSE LET mid  == (lo + hi) \div 2
             left == InitLoop(st, list, lo, mid)
         IN IF left.n >= 0 THEN InitLoop(left, list, mid + 1, hi) ELSE left

\* the thresholds taken as inclusive
PeriodOf_m(samplerate) ==
    IF samplerate >= SR_MHZ1 THEN SR_GHZ1
    ELSE IF samplerate >= SR_KHZ1 THEN SR_MHZ1
    ELSE SR_KHZ1

\* lines 199-204: the time unit constant
PeriodOf(samplerate) ==
    IF samplerate > SR_MHZ1 THEN SR_GHZ1
    ELSE IF samplerate > SR_KHZ1 THEN SR_MHZ1
    ELSE SR_KHZ1

\* the width declared as the span of the bits, highest bit down to 0
VarLine_m(probe_ctx) ==
    [k |-> "var",
     width |-> 1 + (CHOOSE m \in {probe_ctx.indices[i].bit :
                                     i \in 1..Len(probe_ctx.indices)} :
                       \A i \in 1..Len(probe_ctx.indices) :
                           probe_ctx.indices[i].bit <= m),
     sym |-> probe_ctx.symbol, name |-> probe_ctx.name]

\* lines 213-224: the declaration of one probe
VarLine(probe_ctx) ==
    [k |-> "var", width |-> Len(probe_ctx.indices),
     sym |-> probe_ctx.symbol, name |-> probe_ctx.name]

\* lines 176-227: the header text
BuildHeader(pi, nEnabled, nProbes, srate) ==
    <<[k |-> "date"], [k |-> "version"]>>
    \o (IF srate.ok
        THEN <<[k |-> "comment", enabled |-> nEnabled, total |-> nProbes,
                samplerate |-> srate.hz]>>
        ELSE <<>>)
    \o <<[k |-> "timescale", period |-> PeriodOf(IF srate.ok THEN srate.hz ELSE 0)],
         [k |-> "scope"]>>
    \o [i \in 1..Len(pi) |-> VarLine(pi[i])]
    \o <<[k |-> "upscope"], [k |-> "enddefinitions"]>>

\* a slip in the limit: one probe too few
TooMany_m(len) == len >= MaxProbes

\* line 167: the registry has more probes than there are symbols
TooMany(len) == len > MaxProbes

\* init, lines 167-231, on the registry st the loop has built
InitFinish(st, list, srate, len, unitsize, samplerate) ==
    IF TooMany(len)
    THEN [ret  |-> "SR_ERR",
          ctx  |-> [ZeroCtx EXCEPT !.probeindices = st.pi],
          heap |-> st.heap]
    ELSE
       [ret  |-> "SR_OK",
        ctx  |-> [probeindices |->
                      [i \in 1..len |->
                          [st.pi[i] EXCEPT !.indices = g_array_sort(@)]],
                  header     |-> [null |-> FALSE,
                                  text |-> BuildHeader(st.pi, st.n, Len(list), srate)],
                  prevsample |-> [null |-> FALSE,
                                  bytes |-> [i \in 1..unitsize |-> 0]],
                  period     |-> PeriodOf(samplerate),
                  samplerate |-> samplerate,
                  unitsize   |-> unitsize,
                  samplecount |-> 0],
        \* the base names of the vector probes are freed at line 223
        heap |-> {b \in st.heap : b[1] # "name"}
                    \cup {Blk("header", 0), Blk("prevsample", 0)}]

InitRegistry(st, list, srate) ==
    InitFinish(st, list, srate, Len(st.pi), (Len(st.pi) + 7) \div 8,
               IF srate.ok THEN srate.hz ELSE 0)

\* init, lines 115-232: the return value, the context and the heap
init(list, srate) ==
    InitRegistry(InitLoop([pi |-> <<>>, n |-> 0,
                           heap |-> {Blk("ctx", 0), Blk("probeindices", 0)}],
                          list, 1, Len(list)),
                 list, srate)

----------------------------------------------------------------------------
(* Undefined behaviour.  A call is made with a record ub that fixes what   *)
(* the build does where the C standard leaves it open:                     *)
(*   shift: "zero" or "mask", the value of 1 << idx for idx >= 32 (zero,   *)
(*          or the shift count taken modulo 32 as on x86)                  *)
(*   oob:   the byte found by a read outside a buffer                      *)
(*   uaf:   "crash" or "stale", a read of the freed context faults or      *)
(*          finds the old contents                                         *)
(*   short: "crash" or "none", the loop bound length - unitsize of a       *)
(*          packet shorter than one sample wraps around (unsigned) and the *)
(*          loop reads past the buffer until it faults, or is negative     *)
(*          (a signed type wider than unsigned int) and the loop is empty  *)
(*   inf:   "zero" or "max", the conversion of an infinite float to        *)
(*          uint64_t                                                       *)
(***************************************************************************)

IntBits == 32

BitOf(byte, n) == (byte \div Pow2(n)) % 2

\* bit_array[pos] for a 0-based pos
ReadByte(bit_array, pos, ub) ==
    IF pos < Len(bit_array) THEN bit_array[pos + 1] ELSE ub.oob

\* get_bit, lines 234-237: !!(bit_array[idx / 8] & (((uint8_t) 1) << idx)).
\* The shifted 1 is an int: it lies above the byte for 8 <= idx < 31.
get_bit(bit_array, idx, ub) ==
    LET byte == ReadByte(bit_array, idx \div 8, ub)
        sh   == IF idx < IntBits - 1 THEN idx
                ELSE IF ub.shift = "mask" THEN idx % IntBits
                ELSE IntBits - 1
    IN IF sh < 8 THEN BitOf(byte, sh) ELSE 0

\* memcmp(a, b, n): 0 when the first n bytes agree
memcmp(a, b, n) == IF SubSeq(a, 1, n) = SubSeq(b, 1, n) THEN 0 ELSE 1

\* the copy left out
memcpy_m(dst, src, n) == dst

\* memcpy(dst, src, n): the new contents of dst
memcpy(dst, src, n) == [i \in 1..Len(dst) |-> IF i <= n THEN src[i] ELSE dst[i]]

----------------------------------------------------------------------------
(* receive, lines 290-334: the value lines of one sample                   *)

\* lines 302-310: the (0-based) value of s when the scan loop ends
RECURSIVE ChangeScan(_, _, _, _, _)
ChangeScan(indices, s, sample, prevsample, ub) ==
    IF s >= Len(indices) THEN s
    ELSE LET bidx    == indices[s + 1]
             curbit  == get_bit(sample, bidx.sample, ub)
             prevbit == get_bit(prevsample, bidx.sample, ub)
         IN IF prevbit # curbit THEN s
            ELSE ChangeScan(indices, s + 1, sample, prevsample, ub)

\* lines 311-313: the probe is left out of this sample
SkipProbe(first, s, len) == ~first /\ s # len

\* the 'x' characters of a loop for (b = from; b > downto; b--)
XRun(from, downto) == [j \in 1..Max(0, from - downto) |-> "x"]

BitChar(b) == IF b = 1 THEN "1" ELSE "0"

\* lines 317-330: the value characters; last_bit is set at line 317 only
RECURSIVE RenderBits(_, _, _, _, _)
RenderBits(indices, s, last_bit, sample, ub) ==
    IF s >= Len(indices) THEN XRun(last_bit - 1, -1)
    ELSE LET bidx == indices[s + 1]
         IN XRun(last_bit - 1, bidx.bit)
            \o <<BitChar(get_bit(sample, bidx.sample, ub))>>
            \o RenderBits(indices, s + 1, last_bit, sample, ub)

\* lines 315-333: the line of one probe ('b' and ' ' go with is_vector);
\* n is not text: it records the sample count the line was written for
ValueLine(probe_ctx, sample, n, ub) ==
    [k |-> "val", vec |-> probe_ctx.is_vector,
     bits |-> RenderBits(probe_ctx.indices, 0, 0, sample, ub),
     sym |-> probe_ctx.symbol, n |-> n]

\* lines 290-334: the loop over the probes, the lines of the probes that
\* are not left out, in registry order
ProbeLines(pi, first, sample, prevsample, n, ub) ==
    LET Kept(probe_ctx) ==
            ~SkipProbe(first,
                       ChangeScan(probe_ctx.indices, 0, sample, prevsample, ub),
                       Len(probe_ctx.indices))
        kept == SelectSeq(pi, Kept)
    IN [j \in 1..Len(kept) |-> ValueLine(kept[j], sample, n, ub)]

----------------------------------------------------------------------------
(* Single precision arithmetic of lines 279-281.  A float is [m, e]: the   *)
(* value m * 2^e with m below 2^24 (the 24 bit significand); operations    *)
(* round to nearest, ties to even.  Products are formed in limbs of 12     *)
(* bits to stay inside the integers of the model checker.                  *)

Significand == 24
Limb == 4096

RECURSIVE BitLength(_)
BitLength(n) == IF n = 0 THEN 0 ELSE 1 + BitLength(n \div 2)

\* drop the d low bits of n, rounding to nearest, ties to even
RoundShift(n, d) ==
    IF d <= 0 THEN n
    ELSE LET q    == n \div Pow2(d)
             r    == n % Pow2(d)
             half == Pow2(d - 1)
         IN IF r > half \/ (r = half /\ q % 2 = 1) THEN q + 1 ELSE q

\* n without its d low bits, as a float
FloatRound(n, d) == [m |-> RoundShift(n, d), e |-> d]

\* (float) n
FloatOfInt(n) == FloatRound(n, Max(0, BitLength(n) - Significand))

\* the quotient digits of a / b, continued until 24 bits are there
RECURSIVE DivBits(_, _, _, _)
DivBits(m, rem, b, e) ==
    IF m >= Pow2(Significand - 1) THEN [m |-> m, rem |-> rem, e |-> e]
    ELSE IF 2 * rem >= b THEN DivBits(2 * m + 1, 2 * rem - b, b, e - 1)
    ELSE DivBits(2 * m, 2 * rem, b, e - 1)

\* the quotient d rounded by its remainder
DivRound(d, b, e) ==
    [m |-> IF 2 * d.rem > b \/ (2 * d.rem = b /\ d.m % 2 = 1)
           THEN d.m + 1 ELSE d.m,
     e |-> e + d.e]

\* x / y for floats x # 0, y # 0
FDiv(x, y) ==
    DivRound(DivBits(x.m \div y.m, x.m % y.m, y.m, 0), y.m, x.e - y.e)

\* the significand M rounded by the nb bits R that were cut off
MulRound(M, R, nb, e) ==
    [m |-> IF R > Pow2(nb - 1) \/ (R = Pow2(nb - 1) /\ M % 2 = 1)
           THEN M + 1 ELSE M,
     e |-> e + nb]

\* the product hi * 2^24 + lo, hi of nb bits, as a float
MulCut(hi, lo, nb, e) ==
    IF nb = 0 THEN [m |-> lo, e |-> e]
    ELSE MulRound(hi * Pow2(Significand - nb) + lo \div Pow2(nb),
                  lo % Pow2(nb), nb, e)

MulHiLo(hi, lo, e) == MulCut(hi, lo, BitLength(hi), e)

\* the product c2 * Limb^2 + c1 * Limb + c0
MulLimbs(c0, c1, c2, e) ==
    MulHiLo(c2 + (c1 + c0 \div Limb) \div Limb,
            ((c1 + c0 \div Limb) % Limb) * Limb + (c0 % Limb), e)

\* x * y for floats
FMul(x, y) ==
    MulLimbs((x.m % Limb) * (y.m % Limb),
             (x.m \div Limb) * (y.m % Limb) + (x.m % Limb) * (y.m \div Limb),
             (x.m \div Limb) * (y.m \div Limb),
             x.e + y.e)

\* (uint64_t) x: the fraction is discarded
TruncFloat(x) ==
    IF x.e >= 0 THEN x.m * Pow2(x.e)
    ELSE IF -x.e > Significand + 1 THEN 0
    ELSE x.m \div Pow2(-x.e)

\* lines 279-281: (uint64_t)(((float)samplecount / samplerate) * period);
\* with samplerate 0 the quotient is infinite and the conversion undefined
\* (max: the value is UINT64_MAX)
Timestamp(samplecount, samplerate, period, ub) ==
    IF samplerate = 0
    THEN [v |-> 0, max |-> ub.inf = "max"]
    ELSE [v |-> TruncFloat(FMul(FDiv(FloatOfInt(samplecount),
                                     FloatOfInt(samplerate)),
                                FloatOfInt(period))),
          max |-> FALSE]

\* line 279: the line "#<timestamp>"; n is not text: it records the sample
\* count the line was written for
TsLine(ts, n) == [k |-> "ts", v |-> ts.v, max |-> ts.max, n |-> n]

\* memcmp used without its negation
SkipSample_m(first, prevsample, sample, unitsize) ==
    ~first /\ memcmp(prevsample, sample, unitsize) # 0

\* line 276: the sample is passed over
SkipSample(first, prevsample, sample, unitsize) ==
    ~first /\ memcmp(prevsample, sample, unitsize) = 0

----------------------------------------------------------------------------
(* receive, lines 269-340: the loop over the samples of a packet.  i is    *)
(* the byte offset of the sample, text the output so far.                  *)

RECURSIVE SampleLoop(_, _, _, _, _, _)
SampleLoop(c, first, text, p, i, ub) ==
    IF i > Len(p.data) - p.unitsize THEN [ctx |-> c, text |-> text]
    ELSE
    LET c1     == [c EXCEPT !.samplecount = @ + 1]
        sample == SubSeq(p.data, i + 1, Len(p.data))
    IN
    IF SkipSample(first, c.prevsample.bytes, sample, c.unitsize)
    THEN SampleLoop(c1, first, text, p, i + p.unitsize, ub)
    ELSE
    LET lines ==
            <<TsLine(Timestamp(c1.samplecount, c1.samplerate, c1.period, ub),
                     c1.samplecount)>>
            \o (IF first THEN <<[k |-> "dumpvars"]>> ELSE <<>>)
            \o ProbeLines(c1.probeindices, first, sample,
                          c1.prevsample.bytes, c1.samplecount, ub)
            \o (IF first THEN <<[k |-> "end"]>> ELSE <<>>)
        c2 == [c1 EXCEPT !.prevsample.bytes = memcpy(@, sample, c.unitsize)]
    IN SampleLoop(c2, FALSE, text \o lines, p, i + p.unitsize, ub)

Crash(c) == [ret |-> "crash", out |-> NullText, ctx |-> c]

\* the type compared with the wrong constant
Ignored_m(p) == p.type # "SR_DF_END"

\* line 256: the packet is not for this module
Ignored(p) == p.type # "SR_DF_LOGIC"

\* line 264: the header has been handed to the caller
TakeHeader(c) == [c EXCEPT !.header = NullText]

\* line 342, on the result of the loop
Returned(r) ==
    [ret |-> "SR_OK", out |-> [null |-> FALSE, text |-> r.text], ctx |-> r.ctx]

\* receive, lines 239-343.  live: the block o->internal points to is still
\* allocated.
receive(o_internal, live, c, p, ub) ==
    IF o_internal = "NULL"
    THEN [ret |-> "SR_ERR_ARG", out |-> NullText, ctx |-> c]
    ELSE IF Ignored(p)
    THEN [ret |-> "SR_OK", out |-> NullText, ctx |-> c]
    ELSE IF ~live /\ ub.uaf = "crash" THEN Crash(c)
    ELSE
    LET first == ~c.header.null
        out0  == IF first THEN c.header.text ELSE <<>>
        c0    == TakeHeader(c)
    IN IF Len(p.data) < p.unitsize
       THEN IF ub.short = "crash" THEN Crash(c0)
            ELSE [ret |-> "SR_OK", out |-> [null |-> FALSE, text |-> out0],
                  ctx |-> c0]
       ELSE Returned(SampleLoop(c0, first, out0, p, 0, ub))

\* cleanup, lines 345-365: the blocks it frees
CleanupFrees(c) ==
    {Blk("indices", i) : i \in 1..Len(c.probeindices)}
        \cup {Blk("probeindices", 0), Blk("ctx", 0)}

\* cleanup, lines 345-365; o->internal is left as it is
cleanup(o_internal, live, h, c, ub) ==
    IF o_internal = "NULL" THEN [ret |-> "SR_ERR_ARG", heap |-> h]
    ELSE IF ~live /\ ub.uaf = "crash" THEN [ret |-> "crash", heap |-> h]
    ELSE [ret |-> "SR_OK", heap |-> h \ CleanupFrees(c)]

----------------------------------------------------------------------------
(* The inputs of the model                                                 *)

P(name) == [name |-> name, enabled |-> TRUE]

D(name) == [name |-> name, enabled |-> FALSE]

\* the name base<d>
V(base, d) == <<base, "<", d, ">">>

\* n enabled scalar probes p00, p01, ...
Gen(n) ==
    [i \in 1..n |->
        P(<<"p", Digits[((i - 1) \div 10) + 1], Digits[((i - 1) % 10) + 1]>>)]

SmallLists ==
    << <<P(<<"a">>)>>,
       <<P(<<"a">>), P(<<"b">>)>>,
       <<P(V("v", "3")), P(V("v", "0"))>>,
       <<P(V("v", "0")), P(<<"a">>), P(V("v", "1"))>>,
       <<P(V("v", "1")), P(V("v", "0")), P(<<"a">>)>>,
       <<P(<<"<", "3", ">">>), D(<<"b">>), P(<<"v", "<", "1", "0", ">">>),
         P(V("v", "2"))>>,
       Gen(7) \o <<P(V("v", "1")), P(V("v", "0"))>> >>

BigLists ==
    << Gen(94),
       Gen(95),
       Gen(93) \o <<D(<<"x">>), P(V("v", "1")), P(V("v", "0"))>>,
       Gen(94) \o <<P(V("v", "1")), P(V("v", "0"))>> >>

NoRate == [ok |-> FALSE, hz |-> 0]

Hz(n) == [ok |-> TRUE, hz |-> n]

\* the sample rates the drivers of the small lists report: one that
\* single precision cannot divide exactly, none, and the rates at and next
\* to the thresholds of the time unit
SmallRates ==
    <<Hz(100000000), NoRate, Hz(1000), Hz(1000000), Hz(1000001), Hz(1001),
      Hz(3000)>>

\* the probe list and the reported sample rate of a session
Configs ==
    {<<SmallLists[i], SmallRates[i]>> : i \in 1..Len(SmallLists)}
    \cup {<<BigLists[i], Hz(3000)>> : i \in 1..Len(BigLists)}

ByteVals == {0, 1, 6}

\* the samples of S bytes that packets are made of
SampleSet(S) ==
    IF S = 1 THEN {<<b>> : b \in ByteVals}
    ELSE IF S = 2 THEN {<<1, 0>>, <<1, 255>>}
    ELSE {[i \in 1..S |-> 0], [i \in 1..S |-> 255]}

\* wide samples come one to a packet
SamplesPerPacket(S) == IF S > 2 THEN 1 ELSE MaxSamples

RECURSIVE DataSet(_, _)
DataSet(S, n) ==
    IF n = 0 THEN {<<>>}
    ELSE DataSet(S, n - 1)
            \cup {d \o x : d \in DataSet(S, n - 1), x \in SampleSet(S)}

\* the bytes of a packet that follow its last full sample
Trailing(S) == IF S > 1 THEN {<<>>, <<0>>} ELSE {<<>>}

\* the driver's sample width is never below the one init derived
Strides(c) == IF c.unitsize = 1 THEN {1, 2} ELSE {Max(1, c.unitsize)}

NonLogic == [type |-> "SR_DF_END", unitsize |-> 1, data |-> <<>>]

LogicPackets(S) ==
    {[type |-> "SR_DF_LOGIC", unitsize |-> S, data |-> d \o t] :
        d \in DataSet(S, SamplesPerPacket(S)), t \in Trailing(S)}

Packets(c) == {NonLogic} \cup UNION {LogicPackets(S) : S \in Strides(c)}

\* the largest sample offset of the registry
MaxIdx(c) ==
    LET all == UNION {{c.probeindices[i].indices[j].sample :
                          j \in 1..Len(c.probeindices[i].indices)} :
                      i \in 1..Len(c.probeindices)}
    IN IF all = {} THEN 0 ELSE CHOOSE m \in all : \A x \in all : x <= m

\* the choices of the build that can matter to a call on a registry whose
\* largest sample offset is mi
UBs(mi, c, live, p) ==
    [shift : IF mi >= IntBits THEN {"zero", "mask"} ELSE {"zero"},
     oob   : IF mi >= IntBits /\ mi \div 8 >= c.unitsize
             THEN {0, 255} ELSE {0},
     uaf   : IF live THEN {"stale"} ELSE {"stale", "crash"},
     short : IF p.type = "SR_DF_LOGIC" /\ Len(p.data) < p.unitsize
             THEN {"none", "crash"} ELSE {"none"},
     inf   : IF c.samplerate = 0 /\ c.unitsize > 0
             THEN {"zero", "max"} ELSE {"zero"}]

----------------------------------------------------------------------------
(* The state machine: one struct sr_output, called by one thread           *)

Live == Blk("ctx", 0) \in heap

\* the samples a packet holds, and the j-th of them
NSamples(p) == Len(p.data) \div p.unitsize

SampleAt(p, j) == SubSeq(p.data, (j - 1) * p.unitsize + 1, j * p.unitsize)

\* the last sample a call has handled so far
LastHandled ==
    IF op = "receive" /\ ret = "SR_OK" /\ pkt.type = "SR_DF_LOGIC"
       /\ NSamples(pkt) >= 1
    THEN SampleAt(pkt, NSamples(pkt))
    ELSE prevFull

CarriesHeader(o) ==
    /\ ~o.null
    /\ hdr # <<>>
    /\ Len(o.text) >= Len(hdr)
    /\ SubSeq(o.text, 1, Len(hdr)) = hdr

Init ==
    /\ \E cf \in Configs : probes = cf[1] /\ rate = cf[2]
    /\ internal = "NULL"
    /\ heap = {}
    /\ ctx = ZeroCtx
    /\ op = "none"
    /\ pkt = NonLogic
    /\ ret = "none"
    /\ out = NullText
    /\ pre = ZeroCtx
    /\ preLive = FALSE
    /\ prevFull = <<>>
    /\ hdr = <<>>
    /\ hdrOuts = 0
    /\ logicRets = 0
    /\ ncalls = 0

InitCall ==
    /\ internal = "NULL"
    /\ ret # "crash"
    /\ \E r \in {init(probes, rate)} :
          /\ internal' = "ctx"
          /\ ctx' = r.ctx
          /\ heap' = r.heap
          /\ ret' = r.ret
          /\ hdr' = r.ctx.header.text
    /\ op' = "init"
    /\ pre' = ctx
    /\ preLive' = Live
    /\ prevFull' = <<>>
    /\ out' = NullText
    /\ UNCHANGED <<probes, rate, pkt, hdrOuts, logicRets, ncalls>>

ReceiveCall ==
    /\ ret # "crash"
    /\ ncalls < MaxCalls
    /\ \E p \in Packets(ctx) : \E ub \in UBs(MaxIdx(ctx), ctx, Live, p) :
        \E r \in {receive(internal, Live, ctx, p, ub)} :
           /\ pkt' = p
           /\ ret' = r.ret
           /\ out' = r.out
           /\ ctx' = r.ctx
           /\ heap' = IF r.ctx.header.null THEN heap \ {Blk("header", 0)}
                      ELSE heap
           /\ hdrOuts' = IF CarriesHeader(r.out) THEN hdrOuts + 1 ELSE hdrOuts
           /\ logicRets' = IF p.type = "SR_DF_LOGIC" /\ r.ret = "SR_OK"
                           THEN logicRets + 1 ELSE logicRets
    /\ op' = "receive"
    /\ pre' = ctx
    /\ preLive' = Live
    /\ prevFull' = LastHandled
    /\ ncalls' = ncalls + 1
    /\ UNCHANGED <<probes, rate, internal, hdr>>

CleanupCall ==
    /\ ret # "crash"
    /\ ncalls < MaxCalls
    /\ \E ub \in UBs(0, ctx, Live, NonLogic) :
        \E r \in {cleanup(internal, Live, heap, ctx, ub)} :
           /\ ret' = r.ret
           /\ heap' = r.heap
    /\ op' = "cleanup"
    /\ pre' = ctx
    /\ preLive' = Live
    /\ prevFull' = LastHandled
    /\ out' = NullText
    /\ ncalls' = ncalls + 1
    /\ UNCHANGED <<probes, rate, internal, ctx, pkt, hdr, hdrOuts, logicRets>>

Next == InitCall \/ ReceiveCall \/ CleanupCall

Spec == Init /\ [][Next]_vars

----------------------------------------------------------------------------
(* Notions the properties are stated in                                    *)

\* init succeeded, or failed, on this struct sr_output
InitSucceeded == internal = "ctx" /\ hdr # <<>>

InitFailed == internal = "ctx" /\ hdr = <<>>

\* the last call was receive and returned from a logic packet
ReceivedLogic == op = "receive" /\ ret = "SR_OK" /\ pkt.type = "SR_DF_LOGIC"

\* ... on a session that init set up and cleanup had not released
Encoded == ReceivedLogic /\ InitSucceeded /\ preLive

\* the output of the last call without the header
Body ==
    IF CarriesHeader(out) THEN SubSeq(out.text, Len(hdr) + 1, Len(out.text))
    ELSE out.text

\* bit idx of a packed buffer
TrueBit(bytes, idx) ==
    IF idx \div 8 < Len(bytes) THEN BitOf(bytes[(idx \div 8) + 1], idx % 8)
    ELSE 0

\* the j-th sample of the last packet is the first sample of the session
FirstEver(j) == pre.samplecount = 0 /\ j = 1

\* the snapshot the j-th sample of the last packet is compared with
Retained(j) ==
    IF j = 1 THEN pre.prevsample.bytes
    ELSE SubSeq(SampleAt(pkt, j - 1), 1, pre.unitsize)

Identical(j) == SubSeq(SampleAt(pkt, j), 1, pre.unitsize) = Retained(j)

\* the sample handled just before the j-th sample of the last packet
PrevSample(j) == IF j = 1 THEN prevFull ELSE SampleAt(pkt, j - 1)

\* the lines of the last output written for sample count n
IsLineOf(l, n) == l.k \in {"ts", "val"} /\ l.n = n

HasValueLine(probe_ctx, n) ==
    \E i \in 1..Len(out.text) :
        /\ out.text[i].k = "val"
        /\ out.text[i].n = n
        /\ out.text[i].sym = probe_ctx.symbol

BitsDiffer(probe_ctx, a, b) ==
    \E i \in 1..Len(probe_ctx.indices) :
        TrueBit(a, probe_ctx.indices[i].sample)
            # TrueBit(b, probe_ctx.indices[i].sample)

MaxBit(probe_ctx) ==
    CHOOSE m \in {probe_ctx.indices[i].bit : i \in 1..Len(probe_ctx.indices)} :
        \A i \in 1..Len(probe_ctx.indices) : probe_ctx.indices[i].bit <= m

\* the value characters of a vector: every position from the highest bit
\* down to 0, 'x' where the probe has no bit
ExpectedBits(probe_ctx, sample) ==
    [i \in 1..(MaxBit(probe_ctx) + 1) |->
        LET b    == MaxBit(probe_ctx) + 1 - i
            hits == {j \in 1..Len(probe_ctx.indices) :
                        probe_ctx.indices[j].bit = b}
        IN IF hits = {} THEN "x"
           ELSE BitChar(TrueBit(sample,
                    probe_ctx.indices[CHOOSE j \in hits : TRUE].sample))]

----------------------------------------------------------------------------
(* C1: for a sample that is neither the first of the session nor passed    *)
(* over as identical to the retained one, a probe has a value line exactly *)
(* when one of its bits differs from the retained sample.                  *)
C1_ChangedProbesWritten ==
    Encoded =>
        \A j \in 1..NSamples(pkt) :
            (~FirstEver(j) /\ ~Identical(j)) =>
                \A p \in 1..Len(ctx.probeindices) :
                    HasValueLine(ctx.probeindices[p], pre.samplecount + j)
                        <=> BitsDiffer(ctx.probeindices[p], SampleAt(pkt, j),
                                       Retained(j))

(* C2: the first sample of a session yields a timestamp line and a         *)
(* $dumpvars ... $end block with one value line per probe, whatever        *)
(* packets came before it; no other sample yields $dumpvars.               *)
C2_FirstSampleDumpvars ==
    Encoded =>
        LET np == Len(ctx.probeindices)
        IN IF pre.samplecount = 0 /\ NSamples(pkt) >= 1
           THEN /\ Len(Body) >= np + 3
                /\ Body[1].k = "ts"
                /\ Body[2].k = "dumpvars"
                /\ \A i \in 1..np :
                      /\ Body[2 + i].k = "val"
                      /\ Body[2 + i].sym = ctx.probeindices[i].symbol
                /\ Body[np + 3].k = "end"
                /\ \A i \in (np + 4)..Len(Body) : Body[i].k # "dumpvars"
           ELSE \A i \in 1..Len(Body) : Body[i].k # "dumpvars"

(* C3: a sample that is byte-identical to the sample handled just before   *)
(* it, in the same call or the previous one, and is not the first of the   *)
(* session, yields no timestamp line and no value line.                    *)
C3_IdenticalSampleSilent ==
    (ReceivedLogic /\ internal = "ctx" /\ preLive) =>
        \A j \in 1..NSamples(pkt) :
            (~FirstEver(j) /\ SampleAt(pkt, j) = PrevSample(j)) =>
                \A i \in 1..Len(out.text) :
                    ~IsLineOf(out.text[i], pre.samplecount + j)

C3_Witness ==
    /\ Encoded
    /\ \E j \in 1..NSamples(pkt) :
          /\ ~FirstEver(j)
          /\ SampleAt(pkt, j) = PrevSample(j)
          /\ SampleAt(pkt, j)[1] # 0

(* C4: the value of a vector probe has one character for every bit         *)
(* position from its highest bit down to 0, the sampled bit where the      *)
(* probe has that bit and 'x' where it has not.                            *)
C4_VectorGapsAsX ==
    Encoded =>
        \A i \in 1..Len(out.text) :
            (out.text[i].k = "val" /\ out.text[i].vec) =>
                \E p \in 1..Len(ctx.probeindices) :
                    /\ ctx.probeindices[p].symbol = out.text[i].sym
                    /\ out.text[i].bits =
                          ExpectedBits(ctx.probeindices[p],
                              SampleAt(pkt, out.text[i].n - pre.samplecount))

(* C5: with at least one probe, every timestamp line is followed by a      *)
(* value line before the next timestamp line or the end of the output.     *)
C5_TimestampHasValue ==
    (Encoded /\ Len(ctx.probeindices) >= 1) =>
        \A i \in 1..Len(out.text) :
            out.text[i].k = "ts" =>
                \E j \in (i + 1)..Len(out.text) :
                    /\ out.text[j].k = "val"
                    /\ \A m \in (i + 1)..(j - 1) : out.text[m].k # "ts"

----------------------------------------------------------------------------
(* The probe list as a caller sees it                                      *)

EnabledCount(list) == Cardinality({i \in 1..Len(list) : list[i].enabled})

\* the position of '<' in a name of the form base<digits>, 0 for any other
VectorMark(name) ==
    LET marks == {p \in 2..(Len(name) - 2) :
                    /\ name[p] = "<"
                    /\ name[Len(name)] = ">"
                    /\ \A q \in (p + 1)..(Len(name) - 1) : isdigit(name[q])}
    IN IF marks = {} THEN 0 ELSE CHOOSE p \in marks : TRUE

\* the probes of a list: every enabled scalar entry, and every base name
\* of the enabled vector entries
LogicalProbes(list) ==
    Cardinality({i \in 1..Len(list) :
                    list[i].enabled /\ VectorMark(list[i].name) = 0})
    + Cardinality({SubSeq(list[i].name, 1, VectorMark(list[i].name) - 1) :
                    i \in {j \in 1..Len(list) :
                             list[j].enabled /\ VectorMark(list[j].name) # 0}})

(* C6 as stated: init fails exactly when the list has more than 94         *)
(* enabled entries.                                                        *)
C6_FailsAbove94Entries ==
    op = "init" =>
        /\ ret = "SR_OK" <=> EnabledCount(probes) <= MaxProbes
        /\ ret = "SR_ERR" <=> EnabledCount(probes) > MaxProbes

(* C6 amended: init succeeds for every list of at most 94 enabled entries, *)
(* and fails exactly when the enabled entries form more than 94 probes     *)
(* (the bits of a vector count once).                                      *)
C6_FailsAbove94Probes ==
    op = "init" =>
        /\ EnabledCount(probes) <= MaxProbes => ret = "SR_OK"
        /\ ret = "SR_ERR" <=> LogicalProbes(probes) > MaxProbes
        /\ ret = "SR_OK" <=> LogicalProbes(probes) <= MaxProbes

C6_Witness ==
    /\ op = "init"
    /\ ret = "SR_ERR"
    /\ EnabledCount(probes) = MaxProbes + 1

(* C7: once init has failed for too many probes, every receive call that   *)
(* returns from a logic packet returns an error and produces no output.    *)
C7_NoFrameAfterFailedInit ==
    (InitFailed /\ preLive /\ op = "receive" /\ pkt.type = "SR_DF_LOGIC"
        /\ ret # "crash") =>
        /\ ret \in {"SR_ERR", "SR_ERR_ARG"}
        /\ out.null

(* C8: receive and cleanup return an error and produce no output on a      *)
(* session that was never initialized or has been cleaned up.              *)
C8_InvalidSessionRejected ==
    (op \in {"receive", "cleanup"} /\ (internal = "NULL" \/ ~preLive)) =>
        /\ ret \in {"SR_ERR", "SR_ERR_ARG"}
        /\ out.null

(* C9: on an initialized session, receive of a packet that is not logic    *)
(* returns SR_OK, produces no output and leaves struct context as it was.  *)
C9_NonLogicIgnored ==
    (op = "receive" /\ pkt.type # "SR_DF_LOGIC" /\ internal = "ctx") =>
        /\ ret = "SR_OK"
        /\ out.null
        /\ ctx = pre

C9_Witness ==
    /\ op = "receive"
    /\ pkt.type # "SR_DF_LOGIC"
    /\ InitSucceeded
    /\ preLive
    /\ ~ctx.header.null
    /\ ret = "SR_OK"

\* the receive calls made so far with a logic packet, the one that did not
\* return included
LogicCalls ==
    IF op = "receive" /\ pkt.type = "SR_DF_LOGIC" /\ ret = "crash"
    THEN logicRets + 1
    ELSE logicRets

(* C10: after a successful init the header is delivered exactly once, at   *)
(* the front of the output of the first receive call with a logic packet,  *)
(* also when that packet holds no sample; no other output carries it.      *)
C10_HeaderOnce ==
    (InitSucceeded /\ Live) =>
        /\ hdrOuts = IF LogicCalls >= 1 THEN 1 ELSE 0
        /\ (op = "receive" /\ pkt.type = "SR_DF_LOGIC") =>
               (CarriesHeader(out) <=> LogicCalls = 1)
        /\ (op = "receive" /\ pkt.type # "SR_DF_LOGIC") => ~CarriesHeader(out)

(* C11: a receive call with a logic packet of L bytes and stride S returns  *)
(* success and has counted exactly floor(L / S) samples, none when L < S.   *)
C11_CountsFullSamples ==
    (op = "receive" /\ pkt.type = "SR_DF_LOGIC" /\ internal = "ctx" /\ preLive) =>
        /\ ret = "SR_OK"
        /\ ctx.samplecount = pre.samplecount + NSamples(pkt)

\* the $timescale line of the header
TimescaleOf(text) ==
    LET at == {i \in 1..Len(text) : text[i].k = "timescale"}
    IN text[CHOOSE i \in at : TRUE].period

(* C12: init takes the time unit 10^9 for a sample rate above 1,000,000,   *)
(* 10^6 for a rate above 1,000 up to 1,000,000, and 10^3 for any other,    *)
(* also when no rate is reported; the header's timescale is that unit.     *)
C12_TimeUnitThresholds ==
    (op = "init" /\ ret = "SR_OK") =>
        LET r == IF rate.ok THEN rate.hz ELSE 0
            u == IF r > 1000000 THEN 1000000000
                 ELSE IF r > 1000 THEN 1000000
                 ELSE 1000
        IN /\ ctx.period = u
           /\ TimescaleOf(hdr) = u

C12_Witness ==
    /\ op = "init"
    /\ ret = "SR_OK"
    /\ rate = Hz(1000000)
    /\ ctx.period = 1000000

\* floor(k * u / r) for r > 0, formed in parts to keep the products small
ExactTime(k, r, u) == k * (u \div r) + (k * (u % r)) \div r

(* C13: with a sample rate r > 0 every timestamp line written for sample   *)
(* count k carries floor(k / r * u) for the time unit u, and the            *)
(* timestamps of an output never decrease.                                 *)
C13_TimestampExact ==
    (Encoded /\ pre.samplerate > 0) =>
        /\ \A i \in 1..Len(out.text) :
              out.text[i].k = "ts" =>
                  /\ ~out.text[i].max
                  /\ out.text[i].v =
                        ExactTime(out.text[i].n, pre.samplerate, pre.period)
        /\ \A i, j \in 1..Len(out.text) :
              (i < j /\ out.text[i].k = "ts" /\ out.text[j].k = "ts") =>
                  out.text[i].v <= out.text[j].v

----------------------------------------------------------------------------
(* The probes of a list in the order their names first appear              *)

\* the name of the probe the i-th entry belongs to
BaseName(list, i) ==
    IF VectorMark(list[i].name) = 0 THEN list[i].name
    ELSE SubSeq(list[i].name, 1, VectorMark(list[i].name) - 1)

\* the i-th entry is enabled and starts a probe
StartsProbe(list, i) ==
    /\ list[i].enabled
    /\ VectorMark(list[i].name) # 0 =>
          \A j \in 1..(i - 1) :
              ~(/\ list[j].enabled
                /\ VectorMark(list[j].name) # 0
                /\ BaseName(list, j) = BaseName(list, i))

\* the number of probes started up to the i-th entry
ProbeRank(list, i) == Cardinality({j \in 1..i : StartsProbe(list, j)})

(* C14: after a successful init the i-th probe by first appearance of its  *)
(* name (from 0) has the symbol '!' + i, whatever the order of the bits of *)
(* the vectors; the symbols are distinct and lie within '!'..'~'.          *)
C14_SymbolsByFirstAppearance ==
    (op = "init" /\ ret = "SR_OK") =>
        /\ Len(ctx.probeindices) = ProbeRank(probes, Len(probes))
        /\ \A i \in 1..Len(probes) :
              StartsProbe(probes, i) =>
                  LET r == ProbeRank(probes, i)
                  IN /\ ctx.probeindices[r].name = BaseName(probes, i)
                     /\ ctx.probeindices[r].symbol = 33 + (r - 1)
        /\ \A p, q \in 1..Len(ctx.probeindices) :
              /\ ctx.probeindices[p].symbol \in 33..126
              /\ p # q => ctx.probeindices[p].symbol # ctx.probeindices[q].symbol

C14_Witness ==
    /\ op = "init"
    /\ ret = "SR_OK"
    /\ Len(ctx.probeindices) >= 2
    /\ ctx.probeindices[1].is_vector
    /\ Len(ctx.probeindices[1].indices) >= 2
    /\ ~ctx.probeindices[2].is_vector
    /\ ctx.probeindices[2].symbol = 34

(* C15: when cleanup returns on a session that init set up, nothing that   *)
(* init allocated is still allocated: the context, the registry, the bit   *)
(* collections, the previous-sample buffer and the pending header are      *)
(* released.                                                               *)
C15_CleanupReleasesAll ==
    (op = "cleanup" /\ ret = "SR_OK" /\ InitSucceeded /\ preLive) => heap = {}

----------------------------------------------------------------------------
(* The physical bits of a list: its enabled entries, in order              *)

\* the position of the i-th entry among the enabled entries, from 0
BitPosition(list, i) == Cardinality({j \in 1..(i - 1) : list[j].enabled})

\* the bit of its probe that the i-th entry names
BitNumber(list, i) ==
    IF VectorMark(list[i].name) = 0 THEN 0
    ELSE strtoul(list[i].name, VectorMark(list[i].name) + 1, 0)

\* the place in the registry of the probe the i-th entry belongs to
OwnerOf(list, i) ==
    ProbeRank(list,
              IF StartsProbe(list, i) THEN i
              ELSE CHOOSE j \in 1..i :
                      /\ StartsProbe(list, j)
                      /\ VectorMark(list[j].name) # 0
                      /\ BaseName(list, j) = BaseName(list, i))

\* the sample offsets of the registry, one for every stored bit
AllBits(pi) ==
    {<<p, b>> : p \in 1..Len(pi), b \in 1..MaxProbes + 2}
        \cap UNION {{<<p, b>> : b \in 1..Len(pi[p].indices)} : p \in 1..Len(pi)}

(* C16: after init the sample offset stored for an enabled entry is the    *)
(* position of that entry among the enabled entries, so no two stored bits *)
(* have the same sample offset.                                            *)
C16_OffsetIsBitPosition ==
    (op = "init" /\ ret = "SR_OK") =>
        /\ \A i \in 1..Len(probes) :
              probes[i].enabled =>
                  \E b \in 1..Len(ctx.probeindices[OwnerOf(probes, i)].indices) :
                      LET bidx == ctx.probeindices[OwnerOf(probes, i)].indices[b]
                      IN /\ bidx.bit = BitNumber(probes, i)
                         /\ bidx.sample = BitPosition(probes, i)
        /\ \A x, y \in AllBits(ctx.probeindices) :
              x # y =>
                  ctx.probeindices[x[1]].indices[x[2]].sample
                      # ctx.probeindices[y[1]].indices[y[2]].sample

----------------------------------------------------------------------------
\* the probe a value line belongs to
ProbeOfLine(l) ==
    ctx.probeindices[CHOOSE p \in 1..Len(ctx.probeindices) :
                        ctx.probeindices[p].symbol = l.sym]

\* the sample of the last packet a line was written for
SampleOfLine(l) == SampleAt(pkt, l.n - pre.samplecount)

NotX(c) == c # "x"

(* C17: get_bit returns bit (idx mod 8) of byte (idx div 8) for every bit  *)
(* index inside the buffer, idx >= 8 included: the bit characters of a     *)
(* value line are the bits of the sample at the stored offsets.            *)
C17_GetBitAbsoluteIndex ==
    Encoded =>
        \A i \in 1..Len(out.text) :
            out.text[i].k = "val" =>
                LET indices == ProbeOfLine(out.text[i]).indices
                    chars   == SelectSeq(out.text[i].bits, NotX)
                IN \A s \in 1..Len(indices) :
                      indices[s].sample \div 8 < pkt.unitsize =>
                          /\ s <= Len(chars)
                          /\ chars[s] =
                                BitChar(TrueBit(SampleOfLine(out.text[i]),
                                                indices[s].sample))

(* C18: once receive has handled a sample, written or passed over, the     *)
(* buffer ctx->prevsample holds the first unitsize bytes of that sample,   *)
(* and keeps them until the next sample is handled; the buffer has the     *)
(* size init gave it.                                                      *)
C18_SnapshotFollowsSample ==
    (InitSucceeded /\ Live /\ ret # "crash") =>
        /\ Len(ctx.prevsample.bytes) = (Len(ctx.probeindices) + 7) \div 8
        /\ ctx.unitsize = Len(ctx.prevsample.bytes)
        /\ LastHandled # <<>> =>
              ctx.prevsample.bytes = SubSeq(LastHandled, 1, ctx.unitsize)
        /\ (op = "receive" /\ ~(ReceivedLogic /\ NSamples(pkt) >= 1)) =>
              ctx.prevsample = pre.prevsample

C18_Witness ==
    /\ Encoded
    /\ Live
    /\ NSamples(pkt) = 2
    /\ Identical(2)
    /\ pkt.unitsize > ctx.unitsize
    /\ ctx.prevsample.bytes # pre.prevsample.bytes
    /\ ctx.prevsample.bytes = SubSeq(SampleAt(pkt, 2), 1, ctx.unitsize)

(* C19: after a successful init every stored sample offset is below        *)
(* 8 * unitsize, unitsize being ceil(probe count / 8) and the size of      *)
(* ctx->prevsample, so every bit read of that buffer stays inside it.      *)
C19_OffsetsInsideSnapshot ==
    (op = "init" /\ ret = "SR_OK") =>
        /\ ctx.unitsize = (Len(ctx.probeindices) + 7) \div 8
        /\ Len(ctx.prevsample.bytes) = ctx.unitsize
        /\ \A x \in AllBits(ctx.probeindices) :
              ctx.probeindices[x[1]].indices[x[2]].sample < 8 * ctx.unitsize

\* the width the header declares for the probe of a symbol
DeclaredWidth(sym) ==
    LET at == {i \in 1..Len(hdr) : hdr[i].k = "var" /\ hdr[i].sym = sym}
    IN hdr[CHOOSE i \in at : TRUE].width

=============================================================================
